---- MODULE Spec2Model ----
(***************************************************************************)
(* Real-time collaboration core of the board application:                  *)
(*   - the Local Reconciler   (useRealtimeBoard, ws.onmessage)             *)
(*   - the Mutation Relay     (ws-server/index.js)                         *)
(*   - the cursor throttle    (throttle + useRealtimeCursors.sendCursor)   *)
(*   - the Presence Broadcaster (socket.io server, boardCursors)           *)
(*   - the remote cursors of a client (useRealtimeCursors, its sweep)      *)
(*   - one client session     (BoardPage, its bootstrap, sockets, edits    *)
(*                              and writes, the table board_elements)      *)
(*   - two clients of a board and the relay between them                   *)
(* Each part has its own specification over its own variables; the other   *)
(* parts' variables stay at their initial values.                          *)
(***************************************************************************)
EXTENDS Integers, Sequences, FiniteSets, TLC

VARIABLES
    \* ---- Local Reconciler (one client, board socket) ----
    elements,      \* the client's element collection (React state `elements`)
    recLast,       \* the frame last handed to ws.onmessage
    recOnce,       \* the collection as it was after that frame's first delivery
    recPhase,      \* "idle" | "once" | "twice": deliveries of recLast so far
    recCrashed,    \* an exception was thrown while React rendered the page
    \* ---- Mutation Relay ----
    srvState,      \* per socket, the server's view: "absent" | "OPEN" | "CLOSING"
    upstream,      \* per socket, frames sent by the client, not yet handled
    sent,          \* per socket, the frames the last run of `incoming` sent to it
    lastIn,        \* the frame `incoming` handled last, its socket, the sockets then open
    \* ---- cursor throttle (one useRealtimeCursors instance) ----
    now,           \* clock, in ms
    inThrottle,    \* throttle closure: inThrottle
    lastArgs,      \* throttle closure: lastArgs (<<>> or <<x, y>>)
    timerAt,       \* deadline of the pending setTimeout, -1 when none
    wsReady,       \* wsRef.current.readyState (0 connecting, 1 open, 3 closed)
    lastSend,      \* the cursor frame the last step wrote to the socket, if
                   \* any: its arguments, the time since the frame before
                   \* it, whether readyState was 1 at the call it stems from,
                   \* and whether its timer was pending at a cleanup
    sendT,         \* when the last cursor frame was written on the socket of
                   \* wsRef, -1 when none was
    win,           \* the current throttle window's bookkeeping: its calls, the
                   \* frames the throttled function wrote (sent), and the
                   \* frame written to the socket last, by whichever timer
    closedWin,     \* the bookkeeping of the window the last step ended, if any
    thrMounted,    \* the component that called useRealtimeCursors is mounted
    lastArgsOpen,  \* readyState was 1 at the call that stored lastArgs
    orphan,        \* the pending timer of the throttled function of an earlier
                   \* render: its deadline, its lastArgs, lastArgsOpen
    \* ---- remote cursors of one client (useRealtimeCursors) ----
    cursors,       \* React state `cursors`: userId -> [x, y, userName, lastUpdate]
    cnow,          \* the client's clock (Date.now()), in ms
    nextSweep,     \* when the clean-up interval fires next
    curLast,       \* the frame last handed to the cursor socket's ws.onmessage
    \* ---- Presence Broadcaster ----
    conn,          \* per socket: "new" | "connected" | "disconnected"
    currentBoard,  \* per socket closure variable currentBoard
    currentUser,   \* per socket closure variable currentUser
    rooms,         \* per socket, the rooms it has joined
    boardCursors,  \* boardId -> object keyed by user id (insertion ordered)
    emitted,       \* the emissions of the handler that ran last
    lastOp,        \* the handler that ran last: for a join its socket, board and
                   \* user, for a cursor-move its board, for a disconnect its
                   \* socket and the (board, user) pairs the socket had joined as
    joined,        \* per connected socket, the (board, user) pairs it has joined as
    idleMs,        \* time since the server last handled any event, in ms
    \* ---- one client session (BoardPage and its two hooks) ----
    pageMounted,   \* BoardPage is mounted
    pageUser,      \* user?.id ?? "": empty until the bootstrap has set the user
    wsRefState,    \* per hook, the socket in wsRef: "null" | "connecting" |
                   \* "open" | "closed"
    connectionStatus, \* React state connectionStatus of useRealtimeBoard
    boardEvents,   \* events of the board socket whose handlers have yet to run
    boardFailed,   \* the board socket in wsRef failed to open
    outbox,        \* the frames handed to the board socket's send, in order
    openCalls,     \* the sendElementUpdate calls made with the socket open
    saving,        \* the persistence write that is in flight, if any
    toast,         \* the toast shown last
    pageBoard,     \* the boardId of the route
    boot,          \* where initializeBoard is: "user" | "board" | "realtime" | "done"
    loading,       \* React state `loading`: the canvas is not rendered while it holds
    rendered,      \* the value of `elements` the handlers of the last render closed over
    store,         \* the rows of the table board_elements
    refetchDue,    \* a postgres_changes event of the elements channel is pending
    staleEvents,   \* events not yet handled of a board socket the effect has replaced
    canvasShown,   \* the last render found loading false and rendered the canvas
    \* ---- two clients of one board and the relay between them ----
    copies,        \* per client, its element collection
    downstream     \* per client, frames the relay wrote to it, not yet handled

recVars   == <<elements, recLast, recOnce, recPhase, recCrashed>>
relayVars == <<srvState, upstream, sent, lastIn>>
thrVars   == <<now, inThrottle, lastArgs, timerAt, wsReady, lastSend, sendT, win, closedWin,
               thrMounted, lastArgsOpen, orphan>>
presVars  == <<conn, currentBoard, currentUser, rooms, boardCursors,
               emitted, lastOp, joined, idleMs>>
curVars   == <<cursors, cnow, nextSweep, curLast>>
pageVars  == <<pageMounted, pageUser, pageBoard, boot, loading, rendered, store,
               refetchDue, canvasShown, wsRefState, connectionStatus, boardEvents,
               staleEvents, boardFailed, outbox, openCalls, saving, toast>>
syncVars  == <<copies, downstream>>
vars      == <<recVars, relayVars, thrVars, presVars, curVars, pageVars, syncVars>>

\* the variables of the other parts, which a part's actions leave alone
notRec    == <<relayVars, thrVars, presVars, curVars, pageVars, syncVars>>
notRelay  == <<recVars, thrVars, presVars, curVars, pageVars, syncVars>>
notThr    == <<recVars, relayVars, presVars, curVars, pageVars, syncVars>>
notPres   == <<recVars, relayVars, thrVars, curVars, pageVars, syncVars>>
notCur    == <<recVars, relayVars, thrVars, presVars, pageVars, syncVars>>
\* the page shares the element collection with the Local Reconciler
notPage   == <<recLast, recOnce, recPhase, recCrashed, relayVars, thrVars, presVars,
               curVars, syncVars>>
\* two clients and the relay: the relay's sockets and unread frames are shared
notSync   == <<recVars, sent, lastIn, thrVars, presVars, curVars, pageVars>>

(***************************************************************************)
(* Wire frames.  A frame is text; JSON.parse turns well-formed text into a *)
(* value and throws on anything else; JSON.stringify writes the canonical  *)
(* text of a value.  Text that a peer wrote by hand may be well formed     *)
(* without being canonical (spacing, key order).                           *)
(***************************************************************************)
ElementIds == {"e1", "e2"}
Payloads   == {1, 2}
Elements   == [id : ElementIds, v : Payloads]
NoElement  == [id |-> "none", v |-> 0]
NoMsg      == [type |-> "none", userId |-> "", boardId |-> "", action |-> "none",
               element |-> NoElement]
Garbage    == [wf |-> FALSE, canon |-> FALSE, val |-> NoMsg]

JSONstringify(val) == [wf |-> TRUE, canon |-> TRUE, val |-> val]

JSONparse(text) == IF text.wf THEN [ok |-> TRUE, val |-> text.val]
                   ELSE [ok |-> FALSE, val |-> NoMsg]

ElementUpdate(userId, boardId, action, element) ==
    [type |-> "element_update", userId |-> userId, boardId |-> boardId,
     action |-> action, element |-> element]

(***************************************************************************)
(* Local Reconciler                                                        *)
(***************************************************************************)
MaxElems == 3

MyBoard == "X"
MyUser  == "ua"

\* the value of data.element in a message that has no element
Undefined == [id |-> "undefined", v |-> 0]

\* an element with a field that other snapshots of it lack
WideElement == [id |-> "e1", v |-> 1, w |-> 1]

\* { ...el, ...snapshot }
SpreadMerge(el, snapshot) ==
    [k \in DOMAIN el \cup DOMAIN snapshot |->
        IF k \in DOMAIN snapshot THEN snapshot[k] ELSE el[k]]

\* an updater whose update merges the snapshot into the element it finds
SetElementsUpdaterMerge(prev, data) ==
    IF data.action = "update"
      THEN [i \in 1..Len(prev) |->
              IF prev[i].id = data.element.id
                THEN SpreadMerge(prev[i], data.element) ELSE prev[i]]
    ELSE IF data.action = "create"
      THEN Append(prev, data.element)
    ELSE IF data.action = "delete"
      THEN SelectSeq(prev, LAMBDA el : el.id # data.element.id)
    ELSE prev

\* the elements of seq but the first with the id
RECURSIVE RemoveFirst(_, _)
RemoveFirst(seq, id) ==
    IF seq = <<>> THEN <<>>
    ELSE IF Head(seq).id = id THEN Tail(seq)
    ELSE <<Head(seq)>> \o RemoveFirst(Tail(seq), id)

\* an updater whose delete removes the first element with the id only
SetElementsUpdaterDeleteFirst(prev, data) ==
    IF data.action = "update"
      THEN [i \in 1..Len(prev) |->
              IF prev[i].id = data.element.id THEN data.element ELSE prev[i]]
    ELSE IF data.action = "create"
      THEN Append(prev, data.element)
    ELSE IF data.action = "delete"
      THEN RemoveFirst(prev, data.element.id)
    ELSE prev

\* the updater handed to setElements
SetElementsUpdater(prev, data) ==
    IF data.action = "update"
      THEN [i \in 1..Len(prev) |->
              IF prev[i].id = data.element.id THEN data.element ELSE prev[i]]
    ELSE IF data.action = "create"
      THEN Append(prev, data.element)
    ELSE IF data.action = "delete"
      THEN SelectSeq(prev, LAMBDA el : el.id # data.element.id)
    ELSE prev

\* the if of ws.onmessage: the message is handed to setElements
Accepted(p, boardId, userId) ==
    /\ p.ok
    /\ p.val.type = "element_update"
    /\ p.val.boardId = boardId
    /\ p.val.userId # userId

\* a handler that does not compare the message's boardId
BoardOnMessageAnyBoard(prev, text, boardId, userId) ==
    LET p == JSONparse(text) IN
    IF ~p.ok THEN prev
    ELSE IF /\ p.val.type = "element_update"
            /\ p.val.userId # userId
      THEN SetElementsUpdater(prev, p.val)
    ELSE prev

\* ws.onmessage of useRealtimeBoard: the collection after the frame
BoardOnMessage(prev, text, boardId, userId) ==
    LET p == JSONparse(text) IN
    IF ~p.ok THEN prev
    ELSE IF /\ p.val.type = "element_update"
            /\ p.val.boardId = boardId
            /\ p.val.userId # userId
      THEN SetElementsUpdater(prev, p.val)
    ELSE prev

\* the updater reads data.element.id for an element of prev: a TypeError
\* when the message has no element.  React runs the updater while it
\* renders, outside the try of ws.onmessage.
UpdaterThrows(prev, text, boardId, userId) ==
    LET p == JSONparse(text) IN
    /\ Accepted(p, boardId, userId)
    /\ p.val.action \in {"update", "delete"}
    /\ p.val.element = Undefined
    /\ prev # <<>>

\* the page's render reads element.id of every element of the collection
RenderThrows(els) == \E i \in 1..Len(els) : els[i] = Undefined

\* the frames the board socket may be handed
RecFrames ==
    {JSONstringify(ElementUpdate("ub", MyBoard, a, e)) :
        a \in {"create", "update", "delete"}, e \in Elements}
    \cup {JSONstringify(ElementUpdate("ub", MyBoard, a, WideElement)) :
        a \in {"create", "update"}}
    \cup {JSONstringify(ElementUpdate("ub", MyBoard, "move", [id |-> "e1", v |-> 1])),
          JSONstringify(ElementUpdate("ub", "Y", "create", [id |-> "e1", v |-> 1])),
          JSONstringify(ElementUpdate(MyUser, MyBoard, "create", [id |-> "e1", v |-> 1])),
          JSONstringify([ElementUpdate("ub", MyBoard, "create", [id |-> "e1", v |-> 1])
                            EXCEPT !.type = "cursor"]),
          Garbage}

\* frames that parse but lack the element an element_update needs
MalformedFrames ==
    {JSONstringify(ElementUpdate("ub", MyBoard, a, Undefined)) :
        a \in {"create", "update", "delete"}}

RecInit ==
    /\ elements = <<>>
    /\ recLast = Garbage
    /\ recOnce = <<>>
    /\ recPhase = "idle"
    /\ recCrashed = FALSE

\* the collection and the page after the frame text has been handled
RecDeliver(text) ==
    IF UpdaterThrows(elements, text, MyBoard, MyUser)
      THEN /\ recCrashed' = TRUE
           /\ UNCHANGED elements
      ELSE /\ elements' = BoardOnMessage(elements, text, MyBoard, MyUser)
           /\ recCrashed' = RenderThrows(elements')

\* a frame arrives on the board socket
RecOnMessage(text) ==
    /\ UNCHANGED notRec
    /\ ~recCrashed
    /\ Len(BoardOnMessage(elements, text, MyBoard, MyUser)) <= MaxElems
    /\ RecDeliver(text)
    /\ recLast' = text
    /\ recOnce' = elements'
    /\ recPhase' = "once"

\* the same frame arrives once more
RecOnMessageAgain ==
    /\ UNCHANGED notRec
    /\ ~recCrashed
    /\ recPhase = "once"
    /\ Len(BoardOnMessage(elements, recLast, MyBoard, MyUser)) <= MaxElems
    /\ RecDeliver(recLast)
    /\ recPhase' = "twice"
    /\ UNCHANGED <<recLast, recOnce>>

RecNext ==
    \/ \E text \in RecFrames \cup MalformedFrames : RecOnMessage(text)
    \/ RecOnMessageAgain

(***************************************************************************)
(* Mutation Relay (ws-server/index.js) and the clients' sendElementUpdate  *)
(***************************************************************************)
MaxPending == 2

\* the board sockets of three clients A, B and C
RelaySockets == {"a1", "b1", "c1"}

SockUser(s) == CASE s = "a1" -> "ua" [] s = "b1" -> "ub" [] OTHER -> "uc"

\* A and B view board X, C views board Y
SockBoard(s) == IF s = "c1" THEN "Y" ELSE "X"

\* text a peer may write by hand: not JSON at all, or JSON that is not in
\* JSON.stringify's canonical form
RawFrames(s) ==
    {Garbage,
     [wf |-> TRUE, canon |-> FALSE,
      val |-> ElementUpdate(SockUser(s), SockBoard(s), "update", [id |-> "e1", v |-> 2])]}

\* the frames sendElementUpdate writes on socket s
ClientFrames(s) ==
    {JSONstringify(ElementUpdate(SockUser(s), SockBoard(s), "create", [id |-> "e1", v |-> 1]))}

RECURSIVE SumLen(_, _)
SumLen(q, S) == IF S = {} THEN 0
                ELSE LET x == CHOOSE y \in S : TRUE
                     IN  Len(q[x]) + SumLen(q, S \ {x})

Pending == SumLen(upstream, RelaySockets)

RelayInit ==
    /\ srvState = [s \in RelaySockets |-> "absent"]
    /\ upstream = [s \in RelaySockets |-> <<>>]
    /\ sent = [s \in RelaySockets |-> <<>>]
    /\ lastIn = [from |-> "none", text |-> Garbage, open |-> {}]

\* wss.on('connection'): the socket joins wss.clients
Connection(s) ==
    /\ UNCHANGED notRelay
    /\ srvState[s] = "absent"
    /\ srvState' = [srvState EXCEPT ![s] = "OPEN"]
    /\ UNCHANGED <<upstream, sent, lastIn>>

\* the closing handshake has begun: still in wss.clients, no longer OPEN
BeginClose(s) ==
    /\ UNCHANGED notRelay
    /\ srvState[s] = "OPEN"
    /\ srvState' = [srvState EXCEPT ![s] = "CLOSING"]
    /\ UNCHANGED <<upstream, sent, lastIn>>

\* the socket is closed and leaves wss.clients; what it sent and the server
\* has not read is lost
Closed(s) ==
    /\ UNCHANGED notRelay
    /\ srvState[s] \in {"OPEN", "CLOSING"}
    /\ srvState' = [srvState EXCEPT ![s] = "absent"]
    /\ upstream' = [upstream EXCEPT ![s] = <<>>]
    /\ UNCHANGED <<sent, lastIn>>

\* the message sendElementUpdate writes
SendElementUpdateFrame(userId, boardId, element, action) ==
    JSONstringify(ElementUpdate(userId, boardId, action, element))

\* sendElementUpdate(element, action) on the client that owns socket s
SendElementUpdate(s, element, action) ==
    /\ UNCHANGED notRelay
    /\ Pending < MaxPending
    /\ SockUser(s) # "" /\ SockBoard(s) # ""
    /\ srvState[s] = "OPEN"
    /\ upstream' = [upstream EXCEPT ![s] =
          Append(@, SendElementUpdateFrame(SockUser(s), SockBoard(s), element, action))]
    /\ UNCHANGED <<srvState, sent, lastIn>>

\* some other program writes text on socket s
SendRaw(s, text) ==
    /\ UNCHANGED notRelay
    /\ Pending < MaxPending
    /\ srvState[s] = "OPEN"
    /\ upstream' = [upstream EXCEPT ![s] = Append(@, text)]
    /\ UNCHANGED <<srvState, sent, lastIn>>

\* a relay that leaves out the comparison with the sender
RelayTargetAnyOpen(client, ws) == srvState[client] = "OPEN"

\* the condition under which `each` sends to client
RelayTarget(client, ws) == client # ws /\ srvState[client] = "OPEN"

\* a relay that writes every frame twice
RelaySendTwice(queue, message) ==
    Append(Append(queue, JSONstringify(message)), JSONstringify(message))

\* client.send(JSON.stringify(message))
RelaySend(queue, message) == Append(queue, JSONstringify(message))

\* ws.on('message'): incoming(data) for the oldest unread frame of socket s
Incoming(s) ==
    /\ UNCHANGED notRelay
    /\ srvState[s] \in {"OPEN", "CLOSING"}
    /\ upstream[s] # <<>>
    /\ LET data == Head(upstream[s])
           p    == JSONparse(data)
       IN  /\ upstream' = [upstream EXCEPT ![s] = Tail(@)]
           /\ lastIn' = [from |-> s, text |-> data,
                        open |-> {c \in RelaySockets : srvState[c] = "OPEN"}]
           /\ sent' = [c \in RelaySockets |->
                         IF p.ok /\ srvState[c] # "absent" /\ RelayTarget(c, s)
                           THEN RelaySend(<<>>, p.val)
                           ELSE <<>>]
    /\ UNCHANGED srvState

RelayNext ==
    \/ \E s \in RelaySockets : Connection(s)
    \/ \E s \in RelaySockets : BeginClose(s)
    \/ \E s \in RelaySockets : Closed(s)
    \/ \E s \in RelaySockets : \E f \in ClientFrames(s) :
          SendElementUpdate(s, f.val.element, f.val.action)
    \/ \E s \in RelaySockets : \E text \in RawFrames(s) : SendRaw(s, text)
    \/ \E s \in RelaySockets : Incoming(s)

(***************************************************************************)
(* Cursor throttle: throttle(func, 16) around the cursor send of           *)
(* useRealtimeCursors, and the socket wsRef points to.                     *)
(***************************************************************************)
ThrottleLimit == 16
MaxTime  == 48
MaxCalls == 3

\* the clock moves in steps of half a throttle interval
TickMs == ThrottleLimit \div 2

Points == {<<10, 20>>, <<15, 25>>}

\* the userId and boardId handed to useRealtimeCursors
ThrUser  == "ua"
ThrBoard == "X"

NoWin == [active |-> FALSE, calls |-> 0, first |-> <<>>, last |-> <<>>,
          sent |-> <<>>, open |-> TRUE, lastOut |-> <<>>]

\* no throttled function of an earlier render has a timer pending
NoOrphan == [timerAt |-> -1, lastArgs |-> <<>>, argsOpen |-> TRUE]

\* the last step wrote no cursor frame
NoSend == [args |-> <<>>, gap |-> -1, callOpen |-> TRUE, torn |-> FALSE]

ThrInit ==
    /\ now = 0
    /\ inThrottle = FALSE
    /\ lastArgs = <<>>
    /\ timerAt = -1
    /\ wsReady = 0
    /\ lastSend = NoSend
    /\ sendT = -1
    /\ win = NoWin
    /\ closedWin = NoWin
    /\ thrMounted = TRUE
    /\ lastArgsOpen = TRUE
    /\ orphan = NoOrphan

\* the guards of the function handed to throttle: does it write a frame?
CursorFuncSends == ThrUser # "" /\ ThrBoard # "" /\ wsReady = 1

\* wsRef.current.send(...): the record of the frame written
CursorSend(args, callOpen, torn) ==
    [args |-> args, gap |-> IF sendT < 0 THEN -1 ELSE now - sendT,
     callOpen |-> callOpen, torn |-> torn]

\* a throttle that keeps the first arguments it stored
ThrottleElseKeepFirst(prevLastArgs, args) ==
    IF prevLastArgs = <<>> THEN args ELSE prevLastArgs

\* the else branch of the throttled function: what lastArgs becomes
ThrottleElse(prevLastArgs, args) == args

\* a step that writes no frame and ends no window
Quiet ==
    /\ lastSend' = NoSend
    /\ closedWin' = NoWin
    /\ UNCHANGED sendT

\* sendCursor(x, y): one call of the throttled function
SendCursor(args) ==
    /\ UNCHANGED notThr
    /\ thrMounted
    /\ IF ~inThrottle
         THEN /\ lastSend' = IF CursorFuncSends THEN CursorSend(args, wsReady = 1, FALSE)
                             ELSE NoSend
              /\ sendT' = IF CursorFuncSends THEN now ELSE sendT
              /\ inThrottle' = TRUE
              /\ timerAt' = now + ThrottleLimit
              /\ win' = [active |-> TRUE, calls |-> 1, first |-> args, last |-> args,
                         sent |-> IF CursorFuncSends THEN <<args>> ELSE <<>>,
                         open |-> (wsReady = 1),
                         lastOut |-> IF CursorFuncSends THEN args ELSE <<>>]
              /\ UNCHANGED <<lastArgs, lastArgsOpen>>
         ELSE /\ win.calls < MaxCalls
              /\ lastArgs' = ThrottleElse(lastArgs, args)
              /\ lastArgsOpen' = (wsReady = 1)
              /\ win' = [win EXCEPT !.calls = @ + 1, !.last = args,
                                    !.open = @ /\ wsReady = 1]
              /\ lastSend' = NoSend
              /\ UNCHANGED <<sendT, inThrottle, timerAt>>
    /\ closedWin' = NoWin
    /\ UNCHANGED <<now, wsReady, thrMounted, orphan>>

\* the setTimeout callback of throttle
TimerFire ==
    /\ UNCHANGED notThr
    /\ timerAt >= 0
    /\ now >= timerAt
    /\ inThrottle' = FALSE
    /\ timerAt' = -1
    /\ lastArgs' = <<>>
    /\ lastArgsOpen' = TRUE
    /\ lastSend' = IF lastArgs # <<>> /\ CursorFuncSends
                     THEN CursorSend(lastArgs, lastArgsOpen, ~thrMounted)
                     ELSE NoSend
    /\ sendT' = IF lastArgs # <<>> /\ CursorFuncSends THEN now ELSE sendT
    /\ closedWin' = [win EXCEPT
                       !.sent = IF lastArgs # <<>> /\ CursorFuncSends
                                  THEN Append(@, lastArgs) ELSE @,
                       !.lastOut = IF lastArgs # <<>> /\ CursorFuncSends
                                     THEN lastArgs ELSE @,
                       !.open = @ /\ wsReady = 1]
    /\ win' = NoWin
    /\ UNCHANGED <<now, wsReady, thrMounted, orphan>>

\* the setTimeout callback of a throttled function that a later render has
\* replaced: its closure holds the same wsRef
OrphanFire ==
    /\ UNCHANGED notThr
    /\ orphan.timerAt >= 0
    /\ now >= orphan.timerAt
    /\ orphan' = NoOrphan
    /\ lastSend' = IF orphan.lastArgs # <<>> /\ CursorFuncSends
                     THEN CursorSend(orphan.lastArgs, orphan.argsOpen, TRUE)
                     ELSE NoSend
    /\ sendT' = IF orphan.lastArgs # <<>> /\ CursorFuncSends THEN now ELSE sendT
    /\ closedWin' = NoWin
    /\ win' = IF win.active /\ orphan.lastArgs # <<>> /\ CursorFuncSends
                THEN [win EXCEPT !.lastOut = orphan.lastArgs] ELSE win
    /\ UNCHANGED <<now, inThrottle, lastArgs, timerAt, wsReady,
                   thrMounted, lastArgsOpen>>

\* time passes; a timer that is due runs before the clock moves on
Tick ==
    /\ UNCHANGED notThr
    /\ now + TickMs <= MaxTime
    /\ timerAt < 0 \/ now < timerAt
    /\ orphan.timerAt < 0 \/ now < orphan.timerAt
    /\ now' = now + TickMs
    /\ Quiet
    /\ UNCHANGED <<inThrottle, lastArgs, timerAt, wsReady, win,
                   thrMounted, lastArgsOpen, orphan>>

\* the socket of wsRef opens
WsOpened ==
    /\ UNCHANGED notThr
    /\ wsReady = 0
    /\ wsReady' = 1
    /\ Quiet
    /\ UNCHANGED <<now, inThrottle, lastArgs, timerAt, win,
                   thrMounted, lastArgsOpen, orphan>>

\* the socket of wsRef closes (the peer or the network)
WsClosed ==
    /\ UNCHANGED notThr
    /\ wsReady \in {0, 1}
    /\ wsReady' = 3
    /\ win' = IF win.active THEN [win EXCEPT !.open = FALSE] ELSE win
    /\ Quiet
    /\ UNCHANGED <<now, inThrottle, lastArgs, timerAt,
                   thrMounted, lastArgsOpen, orphan>>

\* the board or the user changed: the effect's cleanup closes the socket,
\* the effect stores a new, connecting socket in wsRef, and useCallback keeps
\* a new throttled function; the timer of the old one stays pending
DepsChange ==
    /\ UNCHANGED notThr
    /\ thrMounted
    /\ orphan.timerAt < 0
    /\ wsReady' = 0
    \* a pending timer with nothing stored will write nothing
    /\ orphan' = IF lastArgs # <<>>
                   THEN [timerAt |-> timerAt, lastArgs |-> lastArgs,
                         argsOpen |-> lastArgsOpen]
                   ELSE NoOrphan
    /\ inThrottle' = FALSE
    /\ lastArgs' = <<>>
    /\ lastArgsOpen' = TRUE
    /\ timerAt' = -1
    /\ win' = NoWin
    /\ lastSend' = NoSend
    /\ closedWin' = NoWin
    \* no frame has been written on the new socket
    /\ sendT' = -1
    /\ UNCHANGED <<now, thrMounted>>

\* the component unmounts: the effect's cleanup closes the socket; nothing
\* clears the timer
Unmount ==
    /\ UNCHANGED notThr
    /\ thrMounted
    /\ thrMounted' = FALSE
    /\ wsReady' = 3
    /\ win' = IF win.active THEN [win EXCEPT !.open = FALSE] ELSE win
    /\ Quiet
    /\ UNCHANGED <<now, inThrottle, lastArgs, timerAt, lastArgsOpen, orphan>>

ThrNext ==
    \/ \E args \in Points : SendCursor(args)
    \/ TimerFire
    \/ OrphanFire
    \/ Tick
    \/ WsOpened
    \/ WsClosed
    \/ DepsChange
    \/ Unmount

(***************************************************************************)
(* Presence Broadcaster (socket.io server).  The register-user handler and *)
(* the userSockets registry serve invitation notices only and are left     *)
(* out; the disconnect handler's loop over userSockets touches nothing     *)
(* else.                                                                   *)
(***************************************************************************)
InactivityMs == 10000
SweepMs      == 5000
MaxIdle      == 15000

\* a silence of the inactivity threshold and one sweep period
IdleStep == InactivityMs + SweepMs

PSockets == {"s1", "s2"}
PBoards  == {"b1", "b2"}
UserIds  == {"u1", "u2"}
PPoints  == {<<5, 7>>}

\* the boards a socket's client sends join-board for: the first client
\* moves between boards, the second stays on b1
JoinBoards(s) == IF s = "s1" THEN PBoards ELSE {"b1"}

User(id) == [id |-> id]
NullUser == [id |-> "null"]
Null     == "null"

\* a store that appends a property without looking for the key
ObjSetAppend(obj, key, val) == Append(obj, [key |-> key, val |-> val])

\* A JavaScript object is a list of properties in insertion order.
\* obj[key] = val
ObjSet(obj, key, val) ==
    IF \E i \in 1..Len(obj) : obj[i].key = key
      THEN [i \in 1..Len(obj) |->
              IF obj[i].key = key THEN [key |-> key, val |-> val] ELSE obj[i]]
      ELSE Append(obj, [key |-> key, val |-> val])

\* delete obj[key]
ObjDelete(obj, key) == SelectSeq(obj, LAMBDA p : p.key # key)

\* Object.values(obj)
ObjectValues(obj) == [i \in 1..Len(obj) |-> obj[i].val]

ObjKeys(obj) == {obj[i].key : i \in 1..Len(obj)}

\* the connected sockets in a room, given the rooms of every socket
RoomMembers(rm, room) == {s \in PSockets : conn[s] = "connected" /\ room \in rm[s]}

\* if (!boardCursors[boardId]) boardCursors[boardId] = {}
EnsureBoard(bc, boardId) ==
    IF boardId \in DOMAIN bc THEN bc
    ELSE [b \in DOMAIN bc \cup {boardId} |-> IF b = boardId THEN <<>> ELSE bc[b]]

PresInit ==
    /\ conn = [s \in PSockets |-> "new"]
    /\ currentBoard = [s \in PSockets |-> Null]
    /\ currentUser = [s \in PSockets |-> NullUser]
    /\ rooms = [s \in PSockets |-> {}]
    /\ boardCursors = [b \in {} |-> <<>>]
    /\ emitted = <<>>
    /\ lastOp = [op |-> "none", s |-> "none", board |-> Null, user |-> NullUser,
                 joined |-> {}]
    /\ joined = [s \in PSockets |-> {}]
    /\ idleMs = 0

\* io.on('connection')
IoConnection(s) ==
    /\ UNCHANGED notPres
    /\ conn[s] = "new"
    /\ conn' = [conn EXCEPT ![s] = "connected"]
    /\ currentBoard' = [currentBoard EXCEPT ![s] = Null]
    /\ currentUser' = [currentUser EXCEPT ![s] = NullUser]
    /\ emitted' = <<>>
    /\ lastOp' = [op |-> "connection", s |-> s, board |-> Null, user |-> NullUser,
                  joined |-> {}]
    /\ idleMs' = 0
    /\ UNCHANGED <<rooms, boardCursors, joined>>

\* the entry join-board stores for the user
JoinEntry(user) == [x |-> 0, y |-> 0, user |-> user]

\* a broadcast of the changed entry alone
CursorsUpdateDelta(bc, boardId) ==
    IF bc[boardId] = <<>> THEN <<>>
    ELSE << ObjectValues(bc[boardId])[Len(bc[boardId])] >>

\* the payload of a cursors-update for a board
CursorsUpdate(bc, boardId) == ObjectValues(bc[boardId])

\* socket.on('join-board')
JoinBoard(s, boardId, user) ==
    /\ UNCHANGED notPres
    /\ conn[s] = "connected"
    /\ currentBoard' = [currentBoard EXCEPT ![s] = boardId]
    /\ currentUser' = [currentUser EXCEPT ![s] = user]
    /\ rooms' = [rooms EXCEPT ![s] = @ \cup {boardId}]
    /\ boardCursors' = [EnsureBoard(boardCursors, boardId) EXCEPT
                          ![boardId] = ObjSet(@, user.id, JoinEntry(user))]
    /\ emitted' = << [to |-> {s}, payload |-> CursorsUpdate(boardCursors', boardId)],
                     [to |-> RoomMembers(rooms', boardId) \ {s},
                      payload |-> CursorsUpdate(boardCursors', boardId)] >>
    /\ lastOp' = [op |-> "join-board", s |-> s, board |-> boardId, user |-> user,
                  joined |-> {}]
    /\ joined' = [joined EXCEPT ![s] = @ \cup {<<boardId, user.id>>}]
    /\ idleMs' = 0
    /\ UNCHANGED conn

\* socket.on('cursor-move')
CursorMove(s, boardId, user, x, y) ==
    /\ UNCHANGED notPres
    /\ conn[s] = "connected"
    /\ boardCursors' = [EnsureBoard(boardCursors, boardId) EXCEPT
                          ![boardId] = ObjSet(@, user.id, [x |-> x, y |-> y, user |-> user])]
    /\ emitted' = << [to |-> RoomMembers(rooms, boardId),
                      payload |-> CursorsUpdate(boardCursors', boardId)] >>
    /\ lastOp' = [op |-> "cursor-move", s |-> "none", board |-> boardId,
                  user |-> NullUser, joined |-> {}]
    /\ idleMs' = 0
    /\ UNCHANGED <<conn, currentBoard, currentUser, rooms, joined>>

\* the guard of the disconnect handler's presence clean-up
DisconnectCleans(s) ==
    /\ currentBoard[s] # Null
    /\ currentUser[s] # NullUser
    /\ currentBoard[s] \in DOMAIN boardCursors

\* socket.on('disconnect'): the socket has already left its rooms
Disconnect(s) ==
    /\ UNCHANGED notPres
    /\ conn[s] = "connected"
    /\ conn' = [conn EXCEPT ![s] = "disconnected"]
    /\ rooms' = [rooms EXCEPT ![s] = {}]
    /\ IF DisconnectCleans(s)
         THEN /\ boardCursors' = [boardCursors EXCEPT
                                    ![currentBoard[s]] = ObjDelete(@, currentUser[s].id)]
              /\ emitted' = << [to |-> RoomMembers(rooms', currentBoard[s]) \ {s},
                                payload |-> CursorsUpdate(boardCursors', currentBoard[s])] >>
         ELSE /\ emitted' = <<>>
              /\ UNCHANGED boardCursors
    /\ lastOp' = [op |-> "disconnect", s |-> s, board |-> currentBoard[s],
                  user |-> currentUser[s], joined |-> joined[s]]
    \* the handlers' closure goes with the socket
    /\ currentBoard' = [currentBoard EXCEPT ![s] = Null]
    /\ currentUser' = [currentUser EXCEPT ![s] = NullUser]
    /\ joined' = [joined EXCEPT ![s] = {}]
    /\ idleMs' = 0

\* time passes with no event reaching the server; the server has no timer
PresIdle ==
    /\ UNCHANGED notPres
    /\ idleMs + IdleStep <= MaxIdle
    /\ idleMs' = idleMs + IdleStep
    /\ UNCHANGED <<conn, currentBoard, currentUser, rooms, boardCursors, emitted,
                   lastOp, joined>>

PresNext ==
    \/ \E s \in PSockets : IoConnection(s)
    \/ \E s \in PSockets : \E b \in JoinBoards(s) : \E u \in UserIds :
          JoinBoard(s, b, User(u))
    \/ \E s \in PSockets, b \in PBoards, u \in UserIds, p \in PPoints :
          CursorMove(s, b, User(u), p[1], p[2])
    \/ \E s \in PSockets : Disconnect(s)
    \/ PresIdle

(***************************************************************************)
(* Remote cursors on the client (useRealtimeCursors): the cursor map fed   *)
(* by the relay's 'cursor' frames, and its inactivity sweep.               *)
(***************************************************************************)
MaxCNow == 20000

\* the clock moves in steps of half a sweep interval
CTick == SweepMs \div 2

CursorMsg(userId, boardId, x, y) ==
    [type |-> "cursor", userId |-> userId, userName |-> userId,
     boardId |-> boardId, x |-> x, y |-> y]

\* the frames the cursor socket of user ua on board X may be handed
CursorFrames ==
    {JSONstringify(CursorMsg(u, "X", 10, 20)) : u \in {"ua", "ub", "uc"}}
    \cup {JSONstringify(CursorMsg("ub", "Y", 10, 20)),
          JSONstringify(ElementUpdate("ub", "X", "create", [id |-> "e1", v |-> 1])),
          Garbage}

\* { ...prev, [key]: val }
Spread(prev, key, val) ==
    [k \in DOMAIN prev \cup {key} |-> IF k = key THEN val ELSE prev[k]]

\* ws.onmessage of useRealtimeCursors: the cursor map after the frame
CursorsOnMessage(prev, text, boardId, userId, t) ==
    LET p == JSONparse(text) IN
    IF ~p.ok THEN prev
    ELSE IF /\ p.val.type = "cursor"
            /\ p.val.boardId = boardId
            /\ p.val.userId # userId
      THEN Spread(prev, p.val.userId,
                  [x |-> p.val.x, y |-> p.val.y, userName |-> p.val.userName,
                   lastUpdate |-> t])
    ELSE prev

\* the updater of the clean-up interval
SweepInactive(prev, t) ==
    LET keep == {id \in DOMAIN prev : t - prev[id].lastUpdate < InactivityMs}
    IN  [id \in keep |-> prev[id]]

CurInit ==
    /\ cursors = [id \in {} |-> 0]
    /\ cnow = 0
    /\ nextSweep = SweepMs
    /\ curLast = Garbage

\* a frame arrives on the cursor socket
CurOnMessage(text) ==
    /\ UNCHANGED notCur
    /\ cursors' = CursorsOnMessage(cursors, text, ThrBoard, ThrUser, cnow)
    /\ curLast' = text
    /\ UNCHANGED <<cnow, nextSweep>>

\* the setInterval callback
CurSweep ==
    /\ UNCHANGED notCur
    /\ cnow = nextSweep
    /\ cursors' = SweepInactive(cursors, cnow)
    /\ nextSweep' = nextSweep + SweepMs
    /\ UNCHANGED <<cnow, curLast>>

\* time passes; an interval callback that is due runs before the clock moves on
CurTick ==
    /\ UNCHANGED notCur
    /\ cnow < nextSweep
    /\ cnow + CTick <= MaxCNow
    /\ cnow' = cnow + CTick
    /\ UNCHANGED <<cursors, nextSweep, curLast>>

CurNext ==
    \/ \E text \in CursorFrames : CurOnMessage(text)
    \/ CurSweep
    \/ CurTick

(***************************************************************************)
(* One client session: BoardPage with useRealtimeCursors and               *)
(* useRealtimeBoard, the bootstrap load (initializeBoard), the local edits *)
(* and their persistence writes, the frames the board socket receives and  *)
(* the table board_elements behind boardService.  The route's board id may *)
(* change from MyBoard to OtherBoard while the page stays mounted; the     *)
(* frames received are well formed (the Local Reconciler's specification   *)
(* covers the others).                                                     *)
(***************************************************************************)
MaxOutbox == 2

\* the two hooks BoardPage calls with the same wsUrl
Hooks == {"cursors", "board"}

OtherBoard == "Y"

\* a user of the board other than the session's
Peer == "ub"

NoSave == [element |-> NoElement, isUpdate |-> FALSE, open |-> FALSE, at |-> 0,
           board |-> ""]

\* the elements handleCanvasClick may build
NewElements == {[id |-> i, v |-> 1] : i \in ElementIds}

\* the updates CanvasElement hands to onUpdate
Updates == {[v |-> 2]}

\* the ids gen_random_uuid() gives to inserted rows
DbIds == {"d1", "d2"}

\* board_elements when the session starts: one row of board MyBoard.  madeAs
\* is the id the element had in its creator's collection.
StoredAtStart == <<[id |-> "e1", v |-> 1, board |-> MyBoard, madeAs |-> "e1"]>>

\* getBoardElements(boardId) and the conversion of its rows
ConvertedElements(rows, boardId) ==
    LET mine == SelectSeq(rows, LAMBDA r : r.board = boardId)
    IN  [i \in 1..Len(mine) |-> [id |-> mine[i].id, v |-> mine[i].v]]

\* the frames another client's edits put on the board socket
PageFrames ==
    {JSONstringify(ElementUpdate(Peer, MyBoard, "create", WideElement))}

PageInit ==
    /\ pageMounted = TRUE
    /\ pageUser = ""
    /\ pageBoard = MyBoard
    /\ boot = "user"
    /\ loading = TRUE
    /\ rendered = <<>>
    /\ canvasShown = FALSE
    /\ store = StoredAtStart
    /\ refetchDue = FALSE
    /\ wsRefState = [h \in Hooks |-> "null"]
    /\ connectionStatus = "connecting"
    /\ boardEvents = <<>>
    /\ staleEvents = <<>>
    /\ boardFailed = FALSE
    /\ outbox = <<>>
    /\ openCalls = <<>>
    /\ saving = NoSave
    /\ toast = "none"

\* initializeBoard: getCurrentUser has resolved and setUser has run.  On the
\* first load userId changes from "" to the user's id, and the effect of
\* either hook runs and creates a socket; getBoard is awaited next.
UserLoaded ==
    /\ UNCHANGED notPage
    /\ pageMounted
    /\ boot = "user"
    /\ boot' = "board"
    /\ pageUser' = MyUser
    /\ IF pageUser = ""
         THEN /\ wsRefState' = [h \in Hooks |-> "connecting"]
              /\ connectionStatus' = "connecting"
              /\ boardEvents' = <<>>
              /\ boardFailed' = FALSE
         ELSE UNCHANGED <<wsRefState, connectionStatus, boardEvents, boardFailed>>
    /\ UNCHANGED <<canvasShown, pageMounted, pageBoard, loading, elements, rendered, store,
                   refetchDue, staleEvents, outbox, openCalls, saving, toast>>

\* initializeBoard: getBoard and getBoardElements have resolved;
\* setElements(convertedElements); the realtime subscription is awaited next
ElementsLoaded ==
    /\ UNCHANGED notPage
    /\ pageMounted
    /\ boot = "board"
    /\ boot' = "realtime"
    /\ elements' = ConvertedElements(store, pageBoard)
    /\ UNCHANGED <<canvasShown, pageMounted, pageUser, pageBoard, loading, rendered, store,
                   refetchDue, wsRefState, connectionStatus, boardEvents, staleEvents,
                   boardFailed, outbox, openCalls, saving, toast>>

\* initializeBoard: RealtimeCollaboration.initialize has resolved, its first
\* fetchElements has called setElements(converted); setLoading(false)
BootstrapDone ==
    /\ UNCHANGED notPage
    /\ pageMounted
    /\ boot = "realtime"
    /\ boot' = "done"
    /\ loading' = FALSE
    /\ elements' = ConvertedElements(store, pageBoard)
    /\ refetchDue' = FALSE
    /\ UNCHANGED <<canvasShown, pageMounted, pageUser, pageBoard, rendered, store,
                   wsRefState, connectionStatus, boardEvents, staleEvents,
                   boardFailed, outbox, openCalls, saving, toast>>

\* the postgres_changes callback of the elements channel: fetchElements and
\* setElements(converted)
FetchElements ==
    /\ UNCHANGED notPage
    /\ pageMounted
    /\ boot = "done"
    /\ refetchDue
    /\ refetchDue' = FALSE
    /\ elements' = ConvertedElements(store, pageBoard)
    /\ UNCHANGED <<canvasShown, pageMounted, pageUser, pageBoard, boot, loading, rendered, store,
                   wsRefState, connectionStatus, boardEvents, staleEvents,
                   boardFailed, outbox, openCalls, saving, toast>>

\* React renders BoardPage: the handlers are created anew and close over
\* the current value of the state `elements`
PageRender ==
    /\ UNCHANGED notPage
    /\ pageMounted
    /\ rendered # elements \/ canvasShown # ~loading
    /\ rendered' = elements
    /\ canvasShown' = ~loading
    /\ UNCHANGED <<pageMounted, pageUser, pageBoard, boot, loading, elements, store,
                   refetchDue, wsRefState, connectionStatus, boardEvents, staleEvents,
                   boardFailed, outbox, openCalls, saving, toast>>

\* the events the browser fires on a socket that close() is called on
EventsOfClose(ready) ==
    CASE ready = "connecting" -> <<"error", "close">>
      [] ready = "open"       -> <<"close">>
      [] OTHER                -> <<>>

\* the route's board id changes while the page stays mounted.  The cleanup
\* of either hook's effect closes its socket and the effect runs again:
\* setConnectionStatus('connecting') and a new socket in the same wsRef.
\* The handlers of the replaced board socket stay attached to it.
\* initializeBoard runs again for the new board.
BoardChanged ==
    /\ UNCHANGED notPage
    /\ pageMounted
    /\ pageBoard = MyBoard
    /\ boot = "done"
    /\ saving = NoSave
    /\ pageBoard' = OtherBoard
    /\ boot' = "user"
    /\ staleEvents' = boardEvents \o EventsOfClose(wsRefState["board"])
    /\ boardEvents' = <<>>
    /\ boardFailed' = FALSE
    /\ wsRefState' = [h \in Hooks |-> "connecting"]
    /\ connectionStatus' = "connecting"
    /\ refetchDue' = FALSE
    /\ UNCHANGED <<canvasShown, pageMounted, pageUser, loading, elements, rendered, store,
                   outbox, openCalls, saving, toast>>

\* the socket of a hook opens; ws.onopen of the board hook
SocketOpens(h) ==
    /\ UNCHANGED notPage
    /\ pageMounted
    /\ wsRefState[h] = "connecting"
    /\ wsRefState' = [wsRefState EXCEPT ![h] = "open"]
    /\ connectionStatus' = IF h = "board" THEN "open" ELSE connectionStatus
    /\ UNCHANGED <<canvasShown, pageMounted, pageUser, pageBoard, boot, loading, elements, rendered,
                   store, refetchDue, boardEvents, staleEvents, boardFailed, outbox,
                   openCalls, saving, toast>>

\* the socket of a hook fails to open: it is closed, and the browser fires
\* error and then close on it
SocketFails(h) ==
    /\ UNCHANGED notPage
    /\ pageMounted
    /\ wsRefState[h] = "connecting"
    /\ wsRefState' = [wsRefState EXCEPT ![h] = "closed"]
    /\ boardEvents' = IF h = "board" THEN <<"error", "close">> ELSE boardEvents
    /\ boardFailed' = IF h = "board" THEN TRUE ELSE boardFailed
    /\ UNCHANGED <<canvasShown, pageMounted, pageUser, pageBoard, boot, loading, elements, rendered,
                   store, refetchDue, connectionStatus, staleEvents, outbox,
                   openCalls, saving, toast>>

\* the open socket of a hook is closed by the peer or the network
SocketDrops(h) ==
    /\ UNCHANGED notPage
    /\ pageMounted
    /\ wsRefState[h] = "open"
    /\ wsRefState' = [wsRefState EXCEPT ![h] = "closed"]
    /\ boardEvents' = IF h = "board" THEN <<"close">> ELSE boardEvents
    /\ UNCHANGED <<canvasShown, pageMounted, pageUser, pageBoard, boot, loading, elements, rendered,
                   store, refetchDue, connectionStatus, staleEvents, boardFailed,
                   outbox, openCalls, saving, toast>>

\* ws.onerror of the board hook, on the socket in wsRef
BoardOnError ==
    /\ UNCHANGED notPage
    /\ pageMounted
    /\ boardEvents # <<>>
    /\ Head(boardEvents) = "error"
    /\ connectionStatus' = "error"
    /\ boardEvents' = Tail(boardEvents)
    /\ UNCHANGED <<canvasShown, pageMounted, pageUser, pageBoard, boot, loading, elements, rendered,
                   store, refetchDue, wsRefState, staleEvents, boardFailed, outbox,
                   openCalls, saving, toast>>

\* ws.onclose of the board hook, on the socket in wsRef
BoardOnClose ==
    /\ UNCHANGED notPage
    /\ pageMounted
    /\ boardEvents # <<>>
    /\ Head(boardEvents) = "close"
    /\ connectionStatus' = "closed"
    /\ boardEvents' = Tail(boardEvents)
    /\ UNCHANGED <<canvasShown, pageMounted, pageUser, pageBoard, boot, loading, elements, rendered,
                   store, refetchDue, wsRefState, staleEvents, boardFailed, outbox,
                   openCalls, saving, toast>>

\* connectionStatus after a handler of the board hook has run for an event
\* of a socket: ws.onerror and ws.onclose do not look at wsRef
StatusAfterEvent(status, event) ==
    IF event = "error" THEN "error" ELSE "closed"

\* ws.onerror / ws.onclose of the board hook, on a socket that the effect
\* has replaced
StaleSocketEvent ==
    /\ UNCHANGED notPage
    /\ pageMounted
    /\ staleEvents # <<>>
    /\ connectionStatus' = StatusAfterEvent(connectionStatus, Head(staleEvents))
    /\ staleEvents' = Tail(staleEvents)
    /\ UNCHANGED <<canvasShown, pageMounted, pageUser, pageBoard, boot, loading, elements, rendered,
                   store, refetchDue, wsRefState, boardEvents, boardFailed, outbox,
                   openCalls, saving, toast>>

\* ws.onmessage of the board hook: a frame of another client arrives on the
\* open board socket; setElements(updater)
PageOnMessage(text) ==
    /\ UNCHANGED notPage
    /\ pageMounted
    /\ wsRefState["board"] = "open"
    /\ Len(BoardOnMessage(elements, text, pageBoard, pageUser)) <= MaxElems
    /\ elements' = BoardOnMessage(elements, text, pageBoard, pageUser)
    /\ UNCHANGED <<canvasShown, pageMounted, pageUser, pageBoard, boot, loading, rendered, store,
                   refetchDue, wsRefState, connectionStatus, boardEvents, staleEvents,
                   boardFailed, outbox, openCalls, saving, toast>>

\* BoardPage unmounts: the cleanup of either effect closes its socket; state
\* setters of the unmounted component do nothing any more
PageUnmount ==
    /\ UNCHANGED notPage
    /\ pageMounted
    /\ pageMounted' = FALSE
    /\ wsRefState' = [h \in Hooks |->
                        IF wsRefState[h] = "null" THEN "null" ELSE "closed"]
    /\ boardEvents' = <<>>
    /\ staleEvents' = <<>>
    /\ UNCHANGED <<canvasShown, pageUser, pageBoard, boot, loading, elements, rendered, store,
                   refetchDue, connectionStatus, boardFailed, outbox,
                   openCalls, saving, toast>>

\* a sendElementUpdate that writes every frame with action 'update'
SendElementUpdateOutAsUpdate(out, ready, userId, boardId, element, action) ==
    IF userId = "" \/ boardId = "" THEN out
    ELSE IF ready = "open"
      THEN Append(out, SendElementUpdateFrame(userId, boardId, element, "update"))
    ELSE out

\* sendElementUpdate(element, action): the frames handed to the socket's
\* send so far, after the call
SendElementUpdateOut(out, ready, userId, boardId, element, action) ==
    IF userId = "" \/ boardId = "" THEN out
    ELSE IF ready = "open"
      THEN Append(out, SendElementUpdateFrame(userId, boardId, element, action))
    ELSE out

\* the part of a local edit that follows setElements: the broadcast, then
\* saveElementToDatabase up to its await
BroadcastAndSave(element, action) ==
    /\ outbox' = SendElementUpdateOut(outbox, wsRefState["board"], pageUser, pageBoard,
                                      element, action)
    /\ openCalls' = IF wsRefState["board"] = "open"
                      THEN Append(openCalls, [element |-> element, action |-> action,
                                              board |-> pageBoard])
                      ELSE openCalls
    /\ saving' = [element |-> element, isUpdate |-> (action = "update"),
                  open |-> (wsRefState["board"] = "open"), at |-> Len(outbox'),
                  board |-> pageBoard]

\* the canvas is there once a render has found loading false, and takes one
\* edit while a write is in flight
CanEdit ==
    /\ pageMounted
    /\ canvasShown
    /\ saving = NoSave
    /\ Len(outbox) < MaxOutbox

\* crypto.randomUUID(): an id that no element has or had
FreshId(id) ==
    /\ \A i \in 1..Len(elements) : elements[i].id # id
    /\ \A i \in 1..Len(rendered) : rendered[i].id # id
    /\ \A i \in 1..Len(store) : store[i].id # id /\ store[i].madeAs # id

\* handleCanvasClick with a drawing tool selected: [...elements, newElement]
\* over the collection the handler closed over, setElements(newElements);
\* React renders before the next event
HandleCanvasClick(newElement) ==
    /\ UNCHANGED notPage
    /\ CanEdit
    /\ Len(rendered) < MaxElems
    /\ FreshId(newElement.id)
    /\ elements' = Append(rendered, newElement)
    /\ rendered' = elements'
    /\ BroadcastAndSave(newElement, "create")
    /\ UNCHANGED <<canvasShown, pageMounted, pageUser, pageBoard, boot, loading, store, refetchDue,
                   wsRefState, connectionStatus, boardEvents, staleEvents,
                   boardFailed, toast>>

\* elements.map(el => el.id === id ? { ...el, ...updates } : el)
ElementsAfterUpdate(els, id, updates) ==
    [i \in 1..Len(els) |->
        IF els[i].id = id THEN SpreadMerge(els[i], updates) ELSE els[i]]

\* newElements.find(el => el.id === id): the first element with the id
FindElement(els, id) ==
    LET k == CHOOSE i \in 1..Len(els) :
                /\ els[i].id = id
                /\ \A j \in 1..(i - 1) : els[j].id # id
    IN  els[k]

\* handleElementUpdate(id, updates) for an element of the collection the
\* handler closed over
HandleElementUpdate(id, updates) ==
    /\ UNCHANGED notPage
    /\ CanEdit
    /\ \E i \in 1..Len(rendered) : rendered[i].id = id
    /\ LET newElements == ElementsAfterUpdate(rendered, id, updates)
       IN  /\ elements' = newElements
           /\ rendered' = newElements
           /\ BroadcastAndSave(FindElement(newElements, id), "update")
    /\ UNCHANGED <<canvasShown, pageMounted, pageUser, pageBoard, boot, loading, store, refetchDue,
                   wsRefState, connectionStatus, boardEvents, staleEvents,
                   boardFailed, toast>>

\* supabase.from('board_elements').insert(elementData): elementData has no
\* id, the column's default gen_random_uuid() gives the row one
InsertedRow(rows, save) ==
    LET used == {rows[i].id : i \in 1..Len(rows)}
        id   == CHOOSE d \in DbIds : d \notin used
    IN  Append(rows, [id |-> id, v |-> save.element.v,
                      board |-> save.board, madeAs |-> save.element.id])

\* supabase.from('board_elements').update(updates).eq('id', elementId)
UpdatedRows(rows, save) ==
    [i \in 1..Len(rows) |->
        IF rows[i].id = save.element.id
          THEN [rows[i] EXCEPT !.v = save.element.v] ELSE rows[i]]

\* .select('*').single() finds the one row of the write
WriteFindsRow(rows, save) ==
    IF save.isUpdate
      THEN \E i \in 1..Len(rows) : rows[i].id = save.element.id
      ELSE \E d \in DbIds : \A i \in 1..Len(rows) : rows[i].id # d

\* boardService.createElement / updateElement resolves; the elements
\* channel is told of the changed row
SaveSucceeds ==
    /\ UNCHANGED notPage
    /\ saving # NoSave
    /\ WriteFindsRow(store, saving)
    /\ store' = IF saving.isUpdate THEN UpdatedRows(store, saving)
                ELSE InsertedRow(store, saving)
    /\ refetchDue' = (pageMounted /\ boot = "done" /\ saving.board = pageBoard)
    /\ saving' = NoSave
    /\ UNCHANGED <<canvasShown, pageMounted, pageUser, pageBoard, boot, loading, elements, rendered,
                   wsRefState, connectionStatus, boardEvents, staleEvents,
                   boardFailed, outbox, openCalls, toast>>

\* a catch that takes the element of a failed create out of the collection
AfterSaveErrorRollback(els, save) ==
    IF save.isUpdate THEN els
    ELSE SelectSeq(els, LAMBDA el : el.id # save.element.id)

\* the element collection after the catch of saveElementToDatabase: the
\* catch logs and shows a toast
AfterSaveError(els, save) == els

\* boardService.createElement / updateElement rejects: the catch of
\* saveElementToDatabase
SaveFails ==
    /\ UNCHANGED notPage
    /\ saving # NoSave
    /\ saving' = NoSave
    /\ toast' = "Failed to save changes"
    /\ elements' = AfterSaveError(elements, saving)
    /\ UNCHANGED <<canvasShown, pageMounted, pageUser, pageBoard, boot, loading, rendered, store,
                   refetchDue, wsRefState, connectionStatus, boardEvents, staleEvents,
                   boardFailed, outbox, openCalls>>

PageNext ==
    \/ UserLoaded
    \/ ElementsLoaded
    \/ BootstrapDone
    \/ FetchElements
    \/ PageRender
    \/ \E h \in Hooks : SocketOpens(h)
    \/ \E h \in Hooks : SocketFails(h)
    \/ \E h \in Hooks : SocketDrops(h)
    \/ BoardOnError
    \/ BoardOnClose
    \/ \E text \in PageFrames : PageOnMessage(text)
    \/ PageUnmount
    \/ \E e \in NewElements : HandleCanvasClick(e)
    \/ \E id \in ElementIds : \E u \in Updates : HandleElementUpdate(id, u)
    \/ SaveSucceeds
    \/ SaveFails

(***************************************************************************)
(* Two clients A and B of board X, each with its element collection, and   *)
(* the relay between them: a local update changes the editor's collection  *)
(* and is written to its socket; the relay forwards it to the other        *)
(* client, whose ws.onmessage applies it.  Both clients have loaded the    *)
(* board's stored elements.                                                *)
(***************************************************************************)
SyncClients == {s \in RelaySockets : SockBoard(s) = MyBoard}

\* the board's stored elements, as both clients loaded them
SyncLoaded == <<[id |-> "e1", v |-> 1]>>

\* the updates a client's CanvasElement hands to onUpdate
SyncUpdates == {[v |-> p] : p \in Payloads}

InFlight == Pending + SumLen(downstream, SyncClients)

SyncInit ==
    /\ copies = [c \in SyncClients |-> SyncLoaded]
    /\ downstream = [c \in SyncClients |-> <<>>]

\* handleElementUpdate(id, updates) on client c, both clients connected:
\* setElements, then sendElementUpdate of the merged element
SyncEdit(c, id, updates) ==
    /\ UNCHANGED notSync
    /\ \A d \in SyncClients : srvState[d] = "OPEN"
    /\ InFlight < MaxPending
    /\ \E i \in 1..Len(copies[c]) : copies[c][i].id = id
    /\ LET newElements == ElementsAfterUpdate(copies[c], id, updates)
       IN  /\ copies' = [copies EXCEPT ![c] = newElements]
           /\ upstream' = [upstream EXCEPT ![c] =
                 SendElementUpdateOut(@, "open", SockUser(c), SockBoard(c),
                                      FindElement(newElements, id), "update")]
    /\ UNCHANGED <<srvState, downstream>>

\* ws.on('message') of the relay for the oldest unread frame of client c
SyncIncoming(c) ==
    /\ UNCHANGED notSync
    /\ srvState[c] = "OPEN"
    /\ upstream[c] # <<>>
    /\ LET p == JSONparse(Head(upstream[c]))
       IN  downstream' = [d \in SyncClients |->
                            IF p.ok /\ RelayTarget(d, c)
                              THEN RelaySend(downstream[d], p.val)
                              ELSE downstream[d]]
    /\ upstream' = [upstream EXCEPT ![c] = Tail(@)]
    /\ UNCHANGED <<srvState, copies>>

\* ws.onmessage of useRealtimeBoard on client c for the oldest frame the
\* relay wrote to it
SyncDeliver(c) ==
    /\ UNCHANGED notSync
    /\ downstream[c] # <<>>
    /\ copies' = [copies EXCEPT ![c] =
                    BoardOnMessage(@, Head(downstream[c]), SockBoard(c), SockUser(c))]
    /\ downstream' = [downstream EXCEPT ![c] = Tail(@)]
    /\ UNCHANGED <<srvState, upstream>>

SyncNext ==
    \/ \E c \in SyncClients : Connection(c)
    \/ \E c \in SyncClients : \E id \in ElementIds : \E u \in SyncUpdates :
          SyncEdit(c, id, u)
    \/ \E c \in SyncClients : SyncIncoming(c)
    \/ \E c \in SyncClients : SyncDeliver(c)

(***************************************************************************)
(* Specifications                                                          *)
(***************************************************************************)
Init == RecInit /\ RelayInit /\ ThrInit /\ PresInit /\ CurInit /\ PageInit /\ SyncInit

\* the Mutation Relay and its clients
Next == RelayNext
Spec == Init /\ [][Next]_vars

\* the Local Reconciler
SpecReconciler == Init /\ [][RecNext]_vars

\* the cursor throttle
SpecThrottle == Init /\ [][ThrNext]_vars

\* the Presence Broadcaster
SpecPresence == Init /\ [][PresNext]_vars

\* the client's remote cursors
SpecCursors == Init /\ [][CurNext]_vars

\* one client's two inbound handlers: whatever the relay hands to its board
\* socket and to its cursor socket
InboundFrames ==
    {f \in RecFrames : f = Garbage \/ f.val.element = [id |-> "e1", v |-> 1]}

InboundNext ==
    \/ \E text \in InboundFrames : RecOnMessage(text)
    \/ \E text \in CursorFrames : CurOnMessage(text)

SpecInbound == Init /\ [][InboundNext]_vars

\* one client session
SpecPage == Init /\ [][PageNext]_vars

\* the board hook's connection as the route's board id changes
SocketsNext ==
    \/ UserLoaded
    \/ ElementsLoaded
    \/ BootstrapDone
    \/ PageRender
    \/ BoardChanged
    \/ \E h \in Hooks : SocketOpens(h)
    \/ \E h \in Hooks : SocketFails(h)
    \/ \E h \in Hooks : SocketDrops(h)
    \/ BoardOnError
    \/ BoardOnClose
    \/ StaleSocketEvent
    \/ PageUnmount

SpecSockets == Init /\ [][SocketsNext]_vars

SpecSync == Init /\ [][SyncNext]_vars

(***************************************************************************)
(* Properties                                                              *)
(***************************************************************************)
NoDuplicateIds(seq) ==
    \A i, j \in 1..Len(seq) : i # j => seq[i].id # seq[j].id

\* C1: after any sequence of create/update/delete events applied by the
\* Local Reconciler to a collection that started without duplicate ids, no
\* two elements of the collection have the same id.
C1_NoDuplicateIds == NoDuplicateIds(elements)

\* C2: delivering the same MutationEvent a second time leaves the
\* collection as it was after the first delivery.
C2_ApplyTwiceEqualsOnce == recPhase = "twice" => elements = recOnce

\* C3: whatever frame the relay handles, and whatever sockets are connected
\* or closing, the relay sends nothing to the socket the frame arrived on.
C3_NoSelfEcho ==
    lastIn.from \in RelaySockets => sent[lastIn.from] = <<>>

\* a frame from a1 has been relayed to another socket while a1 was open
C3_Witness ==
    /\ lastIn.from = "a1"
    /\ "a1" \in lastIn.open
    /\ \E c \in RelaySockets : sent[c] # <<>>

\* the frame the relay handled last is an element_update
LastInIsElementUpdate ==
    /\ lastIn.from \in RelaySockets
    /\ JSONparse(lastIn.text).ok
    /\ JSONparse(lastIn.text).val.type = "element_update"

C8_OnlySameBoard ==
    LastInIsElementUpdate =>
        \A c \in RelaySockets :
            sent[c] # <<>> => SockBoard(c) = JSONparse(lastIn.text).val.boardId

C5_OneEntryPerUser ==
    \A b \in DOMAIN boardCursors :
        \A i, j \in 1..Len(boardCursors[b]) :
            i # j => boardCursors[b][i].key # boardCursors[b][j].key

\* both sockets have joined b1 as u1, and a cursor-move for u1 has followed
C5_Witness ==
    /\ <<"b1", "u1">> \in joined["s1"]
    /\ <<"b1", "u1">> \in joined["s2"]
    /\ lastOp.op = "cursor-move"
    /\ lastOp.board = "b1"
    /\ "b1" \in DOMAIN boardCursors
    /\ Len(boardCursors["b1"]) = 1
    /\ boardCursors["b1"][1].val.x = 5

\* C6: once no event has reached the server for the inactivity threshold
\* and one sweep period, no presence entry is left: each has been silent
\* for that long.
C6_IdleEntriesEvicted ==
    idleMs >= InactivityMs + SweepMs =>
        \A b \in DOMAIN boardCursors : boardCursors[b] = <<>>

\* The client's own sweep, by contrast, keeps its cursor map fresh: no entry
\* of the map is older than the inactivity threshold and one sweep period,
\* and the sweep removes no entry younger than the threshold.
ClientSweepEvictsStale ==
    \A id \in DOMAIN cursors :
        cnow - cursors[id].lastUpdate < InactivityMs + SweepMs

ClientSweepKeepsFresh ==
    [][\A id \in DOMAIN cursors :
          (cnow' - cursors[id].lastUpdate < InactivityMs) => id \in DOMAIN cursors']_vars

\* C9: after the disconnect of a socket that joined board b as user u, b's
\* presence map has no entry for u, and a cursors-update without u was
\* emitted to b's room.
C9_DisconnectRemovesEntry ==
    lastOp.op = "disconnect" =>
        \A p \in lastOp.joined :
            /\ p[1] \in DOMAIN boardCursors
            /\ p[2] \notin ObjKeys(boardCursors[p[1]])
            /\ \E i \in 1..Len(emitted) :
                  /\ emitted[i].to = RoomMembers(rooms, p[1])
                  /\ \A k \in 1..Len(emitted[i].payload) :
                        emitted[i].payload[k].user.id # p[2]

\* the entries of a board's presence map, as a set
PresenceSet(b) == {boardCursors[b][i].val : i \in 1..Len(boardCursors[b])}

IsFullSet(payload, b) ==
    /\ Len(payload) = Len(boardCursors[b])
    /\ {payload[k] : k \in 1..Len(payload)} = PresenceSet(b)

\* C10: a join-board emits the board's complete presence set, the joiner's
\* initial sample included, to the joining socket and to every other socket
\* in the board's room; a cursor-move emits the complete set to the room.
C10_FullSetOnJoinAndMove ==
    /\ lastOp.op = "join-board" =>
          /\ Len(emitted) = 2
          /\ emitted[1].to = {lastOp.s}
          /\ emitted[2].to = RoomMembers(rooms, lastOp.board) \ {lastOp.s}
          /\ IsFullSet(emitted[1].payload, lastOp.board)
          /\ IsFullSet(emitted[2].payload, lastOp.board)
          /\ [x |-> 0, y |-> 0, user |-> lastOp.user] \in PresenceSet(lastOp.board)
    /\ lastOp.op = "cursor-move" =>
          /\ Len(emitted) = 1
          /\ emitted[1].to = RoomMembers(rooms, lastOp.board)
          /\ IsFullSet(emitted[1].payload, lastOp.board)

\* a socket has joined a board on which another user is present and another
\* socket is in the room
C10_Witness ==
    /\ lastOp.op = "join-board"
    /\ Len(boardCursors[lastOp.board]) = 2
    /\ Len(emitted) = 2
    /\ emitted[2].to # {}

\* C11: no cursor frame stems from a sendCursor call made while the socket
\* was not open: such a call sends nothing then and nothing later, even
\* when the socket opens afterwards.
C11_NotOpenCallNeverSent ==
    lastSend # NoSend => lastSend.callOpen

\* C16: no cursor frame is written by a timer that was pending when the
\* session was torn down, neither on the closed socket nor on the socket
\* opened afterwards.
C16_NoSendByTornTimer ==
    lastSend # NoSend => ~lastSend.torn

\* C20: any two consecutive cursor frames are written at least the throttle
\* interval apart.
C20_SendsAtLeastLimitApart ==
    (lastSend # NoSend /\ lastSend.gap >= 0) => lastSend.gap >= ThrottleLimit

\* the step applied to the collection the event of the frame recLast': every
\* step of the Local Reconciler is a delivery of that frame
AppliedEvent(action) ==
    /\ ~recCrashed'
    /\ Accepted(JSONparse(recLast'), MyBoard, MyUser)
    /\ JSONparse(recLast').val.action = action
    /\ JSONparse(recLast').val.element # Undefined

Ids(seq) == {seq[i].id : i \in 1..Len(seq)}

\* C14: an update event with snapshot s leaves the length and the order of
\* the collection as they were, puts s itself in the place of every element
\* with the id of s, and leaves every other element as it was; when no
\* element has that id the collection is unchanged.
C14_UpdateReplacesWhole ==
    [][AppliedEvent("update") =>
         LET s == JSONparse(recLast').val.element IN
         /\ Len(elements') = Len(elements)
         /\ \A i \in 1..Len(elements) :
               elements'[i] = IF elements[i].id = s.id THEN s ELSE elements[i]
         /\ (s.id \notin Ids(elements) => elements' = elements)]_vars

\* an update without the field w has been applied to a collection whose
\* first element is e1 and whose second is e2
C14_Witness ==
    /\ recPhase = "once"
    /\ Accepted(JSONparse(recLast), MyBoard, MyUser)
    /\ JSONparse(recLast).val.action = "update"
    /\ JSONparse(recLast).val.element = [id |-> "e1", v |-> 2]
    /\ Len(elements) = 2
    /\ elements[1] = [id |-> "e1", v |-> 2]
    /\ elements[2].id = "e2"

\* C15: a delete event for id i leaves no element with id i and leaves the
\* other elements, in their order; when no element has id i the collection
\* is unchanged; and an id that is absent stays absent until a create for
\* it is applied.
C15_DeleteRemovesAll ==
    [][/\ AppliedEvent("delete") =>
            LET i == JSONparse(recLast').val.element.id IN
            /\ i \notin Ids(elements')
            /\ elements' = SelectSeq(elements, LAMBDA el : el.id # i)
            /\ (i \notin Ids(elements) => elements' = elements)
       /\ \A i \in ElementIds :
            (i \notin Ids(elements) /\ i \in Ids(elements')) =>
                /\ AppliedEvent("create")
                /\ JSONparse(recLast').val.element.id = i]_vars

\* a delete for e1 has been applied and has left e2 alone
C15_Witness ==
    /\ recPhase = "once"
    /\ Accepted(JSONparse(recLast), MyBoard, MyUser)
    /\ JSONparse(recLast).val.action = "delete"
    /\ JSONparse(recLast).val.element.id = "e1"
    /\ Len(elements) = 2
    /\ elements[1].id = "e2"
    /\ elements[2].id = "e2"

\* C17: a frame that does not parse, or an element_update without element,
\* leaves the element collection as it was, and no exception is thrown.
C17_MalformedDropped ==
    [][(recLast' = Garbage \/ recLast' \in MalformedFrames) =>
          /\ elements' = elements
          /\ ~recCrashed']_vars

\* the frame sendElementUpdate is to write for a call
CallFrame(call) ==
    [type |-> "element_update", userId |-> pageUser, boardId |-> call.board,
     action |-> call.action, element |-> call.element]

\* C12: the frames handed to the board socket are, one for one and in call
\* order, those of the sendElementUpdate calls made while the socket was
\* open, each with the element and the action of its call; every such call
\* has written its frame by the time it returns.
C12_OneFramePerOpenCall ==
    /\ Len(outbox) = Len(openCalls)
    /\ \A i \in 1..Len(outbox) :
          /\ JSONparse(outbox[i]).ok
          /\ JSONparse(outbox[i]).val = CallFrame(openCalls[i])

\* a create and then an update of the same element have been sent
C12_Witness ==
    /\ Len(openCalls) = 2
    /\ openCalls[1].action = "create"
    /\ openCalls[2].action = "update"
    /\ openCalls[2].element = [id |-> openCalls[1].element.id, v |-> 2]
    /\ Len(outbox) = 2

\* the sockets of the session that are connecting or open
LiveSockets == {h \in Hooks : wsRefState[h] \in {"connecting", "open"}}

\* C13: a mounted session with a user and a board has exactly one live
\* socket; no session ever has more than one.
C13_ExactlyOneLiveSocket ==
    /\ Cardinality(LiveSockets) <= 1
    /\ (pageMounted /\ pageUser # "") => Cardinality(LiveSockets) = 1

\* C18: once the handlers of a failed open have run, connectionStatus is
\* 'error', and the socket in wsRef is still the failed, closed one: no
\* other socket has been created.
C18_ErrorAfterFailedOpen ==
    boardFailed =>
        /\ wsRefState["board"] = "closed"
        /\ (pageMounted /\ boardEvents = <<>>) => connectionStatus = "error"

\* C19: when the persistence write of a create or update fails, the toast
\* reports it and the element collection and the frames already sent are
\* left as they are; while the write is in flight, the frame of its edit,
\* if the socket was open, has been sent already.
C19_SaveFailureKeepsBroadcast ==
    /\ [][SaveFails =>
            /\ toast' = "Failed to save changes"
            /\ elements' = elements
            /\ outbox' = outbox]_vars
    /\ [](saving # NoSave =>
            /\ saving.at <= Len(outbox)
            /\ saving.open =>
                  /\ saving.at >= 1
                  /\ JSONparse(outbox[saving.at]).val.element = saving.element
                  /\ JSONparse(outbox[saving.at]).val.action =
                        (IF saving.isUpdate THEN "update" ELSE "create"))

\* the write of a create that was broadcast has failed
C19_Witness ==
    /\ toast = "Failed to save changes"
    /\ saving = NoSave
    /\ Len(outbox) = 1
    /\ JSONparse(outbox[1]).val.action = "create"
    /\ Len(elements) = 2
    /\ elements[2] = JSONparse(outbox[1]).val.element

\* C21: when a throttle window in which the socket stayed open has elapsed,
\* nothing is left stored and the cursor frame written to the socket last
\* carries the position of the window's last sendCursor call.
C21_FinalPositionSent ==
    (closedWin.active /\ closedWin.open) =>
        /\ lastArgs = <<>>
        /\ closedWin.lastOut = closedWin.last

\* the same for windows of the throttled function alone: the last frame it
\* wrote carries the position of the window's last call
ThrottleSendsFinalPosition ==
    (closedWin.active /\ closedWin.open) =>
        /\ closedWin.sent # <<>>
        /\ closedWin.sent[Len(closedWin.sent)] = closedWin.last

\* C22: once no socket is connected any more, in particular once every
\* socket that joined a board has disconnected, every board's presence map is
\* empty: no entry of a user without a live connection is left behind.
C22_NoEntryWithoutLiveSocket ==
    (\A s \in PSockets : conn[s] # "connected") =>
        \A b \in DOMAIN boardCursors : boardCursors[b] = <<>>

\* C28: while a connected socket has joined board b as user u, b's presence
\* map has an entry for u.
C28_EntryWhileJoined ==
    \A s \in PSockets :
        conn[s] = "connected" =>
            \A p \in joined[s] :
                /\ p[1] \in DOMAIN boardCursors
                /\ p[2] \in ObjKeys(boardCursors[p[1]])

\* the frame names the client's board and another user
ForClient(text, boardId, userId) ==
    LET p == JSONparse(text) IN
    /\ p.ok
    /\ p.val.boardId = boardId
    /\ p.val.userId # userId

\* C27: an inbound frame changes the client's element collection or its
\* remote-cursor map only if the frame's boardId is the client's boardId and
\* its userId is not the client's own; any other frame leaves both as they
\* were.
C27_OnlyOwnBoardOtherUser ==
    [][/\ (RecOnMessage(recLast') /\ elements' # elements)
            => ForClient(recLast', MyBoard, MyUser)
       /\ (CurOnMessage(curLast') /\ cursors' # cursors)
            => ForClient(curLast', ThrBoard, ThrUser)]_vars

\* both handlers were last handed a frame of another board or of the client
\* itself, while the collection and the cursor map were not empty
C27_Witness ==
    /\ elements # <<>>
    /\ DOMAIN cursors # {}
    /\ recPhase = "once"
    /\ recLast # Garbage
    /\ ~ForClient(recLast, MyBoard, MyUser)
    /\ curLast # Garbage
    /\ ~ForClient(curLast, ThrBoard, ThrUser)

\* C23: once every frame in flight has been relayed and handled, the two
\* clients of the board hold the same element collection, whatever the order
\* in which they updated an element.
C23_EventuallyConsistent ==
    (InFlight = 0) => \A c, d \in SyncClients : copies[c] = copies[d]

\* the receiving half on its own: a client that handles an update of another
\* client holds that frame's snapshot of the element afterwards
ReceiverTakesSnapshot ==
    [][\A c \in SyncClients :
          (SyncDeliver(c) /\ JSONparse(Head(downstream[c])).val.action = "update")
             => \A i \in 1..Len(copies'[c]) :
                   copies'[c][i].id = JSONparse(Head(downstream[c])).val.element.id
                      => copies'[c][i] = JSONparse(Head(downstream[c])).val.element]_vars

\* C24: a hook has a socket only once the bootstrap has set the element
\* collection from the stored elements.
C24_SocketAfterBootstrap ==
    \A h \in Hooks : wsRefState[h] # "null" => boot \in {"realtime", "done"}

\* the second half of C24: the bootstrap's setElements keeps every element
\* the collection held, in particular any that an inbound frame put there
BootstrapKeepsInbound ==
    [][(ElementsLoaded \/ BootstrapDone) =>
          \A i \in 1..Len(elements) :
              \E j \in 1..Len(elements') : elements'[j] = elements[i]]_vars

\* a local edit starts: its handler has called setElements and
\* sendElementUpdate and awaits the persistence write
LocalEditStep == saving = NoSave /\ saving' # NoSave

\* the receiver's collection after the frame of the edit that just started
InboundResult(prev) ==
    BoardOnMessage(prev,
                   SendElementUpdateFrame(pageUser, pageBoard, saving'.element,
                       IF saving'.isUpdate THEN "update" ELSE "create"),
                   pageBoard, Peer)

\* C25: a local create or update made on the collection the page shows
\* leaves the sender with the collection that a receiver holding the same
\* collection has after applying the edit's element_update.
C25_LocalEqualsInbound ==
    [][(LocalEditStep /\ rendered = elements)
          => elements' = InboundResult(elements)]_vars

\* the same for collections in which no two elements share an id
LocalEqualsInboundDistinctIds ==
    [][(LocalEditStep /\ rendered = elements /\ NoDuplicateIds(elements))
          => elements' = InboundResult(elements)]_vars

\* C26: a local create or update keeps every element of the collection it
\* does not edit, in particular what inbound frames have put there.
C26_LocalEditKeepsRemote ==
    [][LocalEditStep =>
          \A i \in 1..Len(elements) :
              elements[i].id # saving'.element.id
                 => \E j \in 1..Len(elements') : elements'[j] = elements[i]]_vars

\* C29: once the pending socket events are handled, connectionStatus is
\* 'open' exactly if the socket in wsRef is open, and the handlers running
\* for an event of a replaced socket leave connectionStatus as it is.
C29_StatusOfCurrentSocket ==
    /\ []((pageMounted /\ boardEvents = <<>> /\ staleEvents = <<>>) =>
            (connectionStatus = "open" <=> wsRefState["board"] = "open"))
    /\ [][StaleSocketEvent => connectionStatus' = connectionStatus]_vars

\* C30: every stored row has the id its element has in its creator's
\* collection and in the frame the creator broadcast.
C30_StoredIdIsLocalId ==
    \A i \in 1..Len(store) : store[i].id = store[i].madeAs

====
